---- MODULE Spec2Model ----
(***************************************************************************)
(* Hierarchical rollup of per-epoch validator dashboard data:              *)
(*   epoch rows -> hourly buckets  (dashboard_data_w_2_epoch_hour.go)      *)
(*   epoch rows -> UTC-day buckets (dashboard_data_w_3_hour_day.go)        *)
(* The relational store, the epoch writer and the helpers of package edb   *)
(* and utils are collaborators outside the two files; they are modelled    *)
(* from the design document and marked so where they are defined.          *)
(***************************************************************************)
EXTENDS Integers, Sequences, FiniteSets, TLC

(***************************************************************************)
(* Bounds of the model.                                                    *)
(***************************************************************************)
\* highest epoch the epoch writer exports
MaxEpoch == 58
\* genesis offsets 0..MaxOffset are tried
MaxOffset == 0
\* a store failure can hit the 1st..MaxFaultAt-th bucket step of a pass
MaxFaultAt == 2

\* the aggregator driven keeps up with the epoch writer within MaxLag epochs,
\* unless it stalled before its last bucket went past epoch MaxStall
MaxLag == 4

MaxStall == 1

\* the epochs the epoch writer exports in the system of hour passes and sweeps
RetMaxEpoch == 12

\* the epochs the epoch writer exports in the system of hour passes and
\* bootstraps: a day and two hour buckets
RollMaxEpoch == 51

\* the bounds functions are applied to the epochs 0..BoundsMaxEpoch under the
\* genesis offsets 0..BoundsMaxOffset
BoundsMaxEpoch == 100

BoundsMaxOffset == 49

\* the epochs the epoch writer exports in the concurrent system are 0..ConcMaxEpoch
ConcMaxEpoch == 3

(***************************************************************************)
(* Configuration and program constants.                                    *)
(***************************************************************************)
\* utils.EpochsPerDay(): 24h / (slots per epoch * seconds per slot)
EpochsPerDay == 48
\* const hourRetentionBuffer = 1.2, in tenths
hourRetentionBufferTenths == 12
\* retention buffer of the epoch table (epochWriter), in tenths
epochRetentionBufferTenths == 13
\* PartitionEpochWidth, declared beside the epoch writer
PartitionEpochWidth == 3
\* const PartitionDayWidth = 6
PartitionDayWidth == 6
\* stands for 2^64: every epoch of the model is far below it
Uint64Modulus == 1073741824

VARIABLES
    offset,      \* utils.GetEpochOffsetGenesis(): epochs from UTC midnight to genesis
    source,      \* epochs present in validator_dashboard_data_epoch
    hourly,      \* rows of validator_dashboard_data_hourly
    hourParts,   \* existing partitions of the hourly table, <<from, to>>
    daily,       \* rows of validator_dashboard_data_daily
    dayParts,    \* existing partitions of the daily table, <<fromDay, toDay>>
    rolling,     \* rows of validator_dashboard_data_rolling_daily
    driven,      \* the aggregator the scheduler drives: "hour", "day" or "both"
    call,        \* the most recent operation and its outcome
    mutex,       \* the holder of the mutex of each aggregator
    pc,          \* where each concurrent invocation stands
    frame        \* the arguments and locals of each concurrent invocation

threads == <<mutex, pc, frame>>

vars == <<offset, source, hourly, hourParts, daily, dayParts, rolling, driven, call, threads>>

(***************************************************************************)
(* Arithmetic helpers.                                                     *)
(***************************************************************************)
\* uint64 subtraction a - b
U64Sub(a, b) == (a - b) % Uint64Modulus

\* the highest exported epoch, -1 when nothing is exported
SourceHead ==
    IF source = {} THEN -1
    ELSE CHOOSE x \in source : x + 1 \notin source /\ \A y \in source : y <= x

\* one MetricRecord per epoch (one entity): the additive columns of the model
SourceRecord(epoch) == [reward |-> 1, deposits_amount |-> epoch + 1]

\* the balance columns of that MetricRecord: before and after the epoch's reward
SourceBalance(epoch) == [balance_start |-> 32 + epoch, balance_end |-> 33 + epoch]

\* a NULL balance
NoBalance == -1

\* the rows of validator_dashboard_data_epoch WHERE epoch >= from AND epoch <= to
SourceEpochs(from, to) == {x \in from..to : x \in source}

\* the highest epoch of those rows (ORDER BY epoch DESC LIMIT 1), -1 without rows
RECURSIVE LastSourceEpoch(_, _)
LastSourceEpoch(from, to) ==
    IF to < from THEN -1
    ELSE IF to \in source THEN to
    ELSE LastSourceEpoch(from, to - 1)

\* SUM(reward) over those rows
RECURSIVE SumReward(_, _)
SumReward(from, to) ==
    IF from > to THEN 0
    ELSE (IF from \in source THEN SourceRecord(from).reward ELSE 0)
         + SumReward(from + 1, to)

\* SUM(deposits_amount) over those rows
RECURSIVE SumDeposits(_, _)
SumDeposits(from, to) ==
    IF from > to THEN 0
    ELSE (IF from \in source THEN SourceRecord(from).deposits_amount ELSE 0)
         + SumDeposits(from + 1, to)

(***************************************************************************)
(* Widths and bounds.                                                      *)
(***************************************************************************)
getHourAggregateWidth == EpochsPerDay \div 24

GetDayAggregateWidth == EpochsPerDay

getHourRetentionDurationEpochs == (EpochsPerDay * hourRetentionBufferTenths) \div 10

getRetentionEpochDuration == (EpochsPerDay * epochRetentionBufferTenths) \div 10

\* getHourAggregateBounds rounding the epoch itself, not the epoch moved to utc
getHourAggregateBounds_NoOffset(epoch) ==
    LET startOfPartition == (epoch \div getHourAggregateWidth) * getHourAggregateWidth
        endOfPartition == startOfPartition + getHourAggregateWidth
    IN  <<startOfPartition, endOfPartition>>

\* getHourAggregateBounds without the clamp to the genesis offset
getHourAggregateBounds_NoClamp(epoch) ==
    LET e == epoch + offset
        startOfPartition == (e \div getHourAggregateWidth) * getHourAggregateWidth
        endOfPartition == startOfPartition + getHourAggregateWidth
    IN  <<U64Sub(startOfPartition, offset), endOfPartition - offset>>

getHourAggregateBounds(epoch) ==
    LET e == epoch + offset
        startOfPartition == (e \div getHourAggregateWidth) * getHourAggregateWidth
        endOfPartition == startOfPartition + getHourAggregateWidth
        clamped == IF startOfPartition < offset THEN offset ELSE startOfPartition
    IN  <<clamped - offset, endOfPartition - offset>>

getDayAggregateBounds(epoch) ==
    LET e == epoch + offset
        startOfPartition == (e \div GetDayAggregateWidth) * GetDayAggregateWidth
        endOfPartition == startOfPartition + GetDayAggregateWidth
        clamped == IF startOfPartition < offset THEN offset ELSE startOfPartition
    IN  <<clamped - offset, endOfPartition - offset>>

\* GetHourPartitionRange starting the partition at the epoch it is asked for
GetHourPartitionRange_FromEpoch(epoch) ==
    <<epoch, epoch + PartitionEpochWidth * getHourAggregateWidth>>

GetHourPartitionRange(epoch) ==
    LET startOfPartition ==
            ((epoch \div (PartitionEpochWidth * getHourAggregateWidth))
                * PartitionEpochWidth) * getHourAggregateWidth
        endOfPartition == startOfPartition + PartitionEpochWidth * getHourAggregateWidth
    IN  <<startOfPartition, endOfPartition>>

\* utils.EpochToTime(epoch) cut to its UTC calendar day, as a day number
EpochToDay(epoch) == (epoch + offset) \div EpochsPerDay

GetDayPartitionRange(epoch) ==
    LET startOfPartition ==
            ((epoch \div (PartitionDayWidth * GetDayAggregateWidth))
                * PartitionDayWidth) * GetDayAggregateWidth
        endOfPartition == startOfPartition + PartitionDayWidth * GetDayAggregateWidth
    IN  <<EpochToDay(startOfPartition), EpochToDay(endOfPartition)>>

(***************************************************************************)
(* The store (package edb and the relational store).                       *)
(***************************************************************************)
\* the zero value a failed or empty lookup leaves in the result struct
NoBounds == [EpochStart |-> 0, EpochEnd |-> 0]

\* edb.GetLastExportedHour / edb.GetLastExportedDay: the bucket with the highest
\* epoch_start; sql.ErrNoRows is tolerated by the callers and leaves NoBounds
GetLastExported(rows) ==
    IF rows = {} THEN NoBounds
    ELSE LET r == CHOOSE x \in rows : \A y \in rows : y.epoch_start <= x.epoch_start
         IN  [EpochStart |-> r.epoch_start, EpochEnd |-> r.epoch_end]

\* edb.GetDashboardEpochGapsBetween(targetEpoch, minEpoch): the epochs of
\* [max(minEpoch, 0), targetEpoch] that the epoch table does not hold
GetDashboardEpochGapsBetween(targetEpoch, minEpoch) ==
    {x \in (IF minEpoch < 0 THEN 0 ELSE minEpoch)..targetEpoch : x \notin source}

\* the row a CustomRolling merge conflicts with
ConflictRows(rows, custom) ==
    {r \in rows : IF custom.TableConflict = "day"
                  THEN r.day = custom.Day
                  ELSE r.epoch_start = custom.StartBoundEpoch}

\* AddToRollingCustom: sums the source rows of [StartEpoch, EndEpoch] and inserts
\* them as the bucket StartBoundEpoch, or adds them to the bucket row that is there
AddToRollingCustom(rows, custom) ==
    LET range == SourceEpochs(custom.StartEpoch, custom.EndEpoch)
        old == ConflictRows(rows, custom)
        fresh == [epoch_start |-> custom.StartBoundEpoch,
                  epoch_end |-> custom.EndEpoch + 1,
                  reward |-> SumReward(custom.StartEpoch, custom.EndEpoch),
                  deposits_amount |-> SumDeposits(custom.StartEpoch, custom.EndEpoch),
                  balance_start |-> IF custom.StartEpoch \in source
                                    THEN SourceBalance(custom.StartEpoch).balance_start
                                    ELSE NoBalance,
                  balance_end |-> IF range = {} THEN NoBalance
                                  ELSE SourceBalance(LastSourceEpoch(custom.StartEpoch,
                                                        custom.EndEpoch)).balance_end,
                  day |-> custom.Day]
        merged(r) == [r EXCEPT !.reward = r.reward + fresh.reward,
                               !.deposits_amount = r.deposits_amount + fresh.deposits_amount,
                               !.balance_end = fresh.balance_end,
                               !.epoch_end = fresh.epoch_end]
    IN  IF range = {} THEN rows
        ELSE IF old = {} THEN rows \cup {fresh}
        ELSE (rows \ old) \cup {merged(r) : r \in old}

\* a partitioned table takes a row only into an existing partition
HasPartitionFor(parts, key) == \E p \in parts : p[1] <= key /\ key < p[2]

\* whether the merge would write at all (an empty source range selects nothing)
Writes(custom) == SourceEpochs(custom.StartEpoch, custom.EndEpoch) # {}

NoDay == -1

(***************************************************************************)
(* One bucket range of a pass.                                             *)
(***************************************************************************)
ErrNil == "nil"

\* CREATE TABLE IF NOT EXISTS ... PARTITION OF ..., on db.AlloyWriter
createHourlyPartition(parts, epochStartFrom, epochStartTo) ==
    parts \cup {<<epochStartFrom, epochStartTo>>}

createDayPartition(parts, dayFrom, dayTo) ==
    parts \cup {<<dayFrom, dayTo>>}

\* aggregate1hSpecific with the merge left in place when the commit fails
aggregate1hSpecific_NoRollback(rows, parts, epochStart, epochEnd, stage) ==
    LET pr == GetHourPartitionRange(epochStart)
        created == createHourlyPartition(parts, pr[1], pr[2])
        custom == [StartEpoch |-> epochStart,
                   EndEpoch |-> U64Sub(epochEnd, 1),
                   StartBoundEpoch |-> getHourAggregateBounds(epochStart)[1],
                   TableConflict |-> "epoch_start",
                   Day |-> NoDay]
    IN  IF stage \in {"begin", "partition"}
        THEN [rows |-> rows, parts |-> parts, err |-> "failed to start transaction"]
        ELSE IF stage = "write"
        THEN [rows |-> rows, parts |-> created, err |-> "failed to insert hourly data"]
        ELSE [rows |-> AddToRollingCustom(rows, custom), parts |-> created,
              err |-> IF stage = "commit" THEN "failed to commit transaction" ELSE ErrNil]

\* stage: where the store fails in this call, "none" when it does not
aggregate1hSpecific(rows, parts, epochStart, epochEnd, stage) ==
    LET pr == GetHourPartitionRange(epochStart)
        created == createHourlyPartition(parts, pr[1], pr[2])
        boundsStart == getHourAggregateBounds(epochStart)[1]
        custom == [StartEpoch |-> epochStart,
                   EndEpoch |-> U64Sub(epochEnd, 1),
                   StartBoundEpoch |-> boundsStart,
                   TableConflict |-> "epoch_start",
                   Day |-> NoDay]
        rejected == Writes(custom) /\ ~HasPartitionFor(created, boundsStart)
    IN  IF stage = "begin"
        THEN [rows |-> rows, parts |-> parts, err |-> "failed to start transaction"]
        ELSE IF stage = "partition"
        THEN [rows |-> rows, parts |-> parts, err |-> "failed to create hourly partition"]
        ELSE IF stage = "write" \/ rejected
        THEN [rows |-> rows, parts |-> created, err |-> "failed to insert hourly data"]
        ELSE IF stage = "commit"
        THEN [rows |-> rows, parts |-> created, err |-> "failed to commit transaction"]
        ELSE [rows |-> AddToRollingCustom(rows, custom), parts |-> created, err |-> ErrNil]

aggregateUtcDaySpecific(rows, parts, firstEpochOfDay, lastEpochOfDay, stage) ==
    LET pr == GetDayPartitionRange(lastEpochOfDay)
        created == createDayPartition(parts, pr[1], pr[2])
        boundsStart == getDayAggregateBounds(firstEpochOfDay)[1]
        custom == [StartEpoch |-> firstEpochOfDay,
                   EndEpoch |-> U64Sub(lastEpochOfDay, 1),
                   StartBoundEpoch |-> boundsStart,
                   TableConflict |-> "day",
                   Day |-> EpochToDay(boundsStart)]
        rejected == Writes(custom) /\ ~HasPartitionFor(created, custom.Day)
    IN  IF stage = "partition"
        THEN [rows |-> rows, parts |-> parts, err |-> "failed to create day partition"]
        ELSE IF stage = "begin"
        THEN [rows |-> rows, parts |-> created, err |-> "failed to start transaction"]
        ELSE IF stage = "write" \/ rejected
        THEN [rows |-> rows, parts |-> created, err |-> "failed to insert daily aggregate"]
        ELSE IF stage = "commit"
        THEN [rows |-> rows, parts |-> created, err |-> "failed to commit transaction"]
        ELSE [rows |-> AddToRollingCustom(rows, custom), parts |-> created, err |-> ErrNil]

(***************************************************************************)
(* The aggregation passes.                                                 *)
(***************************************************************************)
NoFault == [at |-> 0, stage |-> "none"]

\* where the store may fail in one pass: reading the last bucket, the gap query,
\* or a stage of the at-th bucket range
Faults ==
    {NoFault}
    \cup {[at |-> 0, stage |-> s] : s \in {"last", "gaps"}}
    \cup {[at |-> i, stage |-> s] : i \in 1..MaxFaultAt,
                                    s \in {"begin", "partition", "write", "commit"}}

\* hourStepBounds with the end bound never scoped down to currentExportedEpoch+1
hourStepBounds_NoScopeDown(lastHourExported, currentExportedEpoch, epoch) ==
    LET b == getHourAggregateBounds(epoch)
    IN  [skip |-> lastHourExported.EpochEnd = b[2],
         boundsStart |-> IF epoch = lastHourExported.EpochStart
                         THEN lastHourExported.EpochEnd
                         ELSE b[1],
         boundsEnd |-> b[2]]

\* hourStepBounds with the start bound never moved to lastHourExported.EpochEnd
hourStepBounds_NoResume(lastHourExported, currentExportedEpoch, epoch) ==
    LET b == getHourAggregateBounds(epoch)
    IN  [skip |-> lastHourExported.EpochEnd = b[2],
         boundsStart |-> b[1],
         boundsEnd |-> IF currentExportedEpoch + 1 >= b[1]
                          /\ currentExportedEpoch + 1 < b[2]
                       THEN currentExportedEpoch + 1
                       ELSE b[2]]

\* hourStepBounds with the completeness test made against the start of the bucket
hourStepBounds_SkipOnStart(lastHourExported, currentExportedEpoch, epoch) ==
    LET b == getHourAggregateBounds(epoch)
        boundsStart == IF epoch = lastHourExported.EpochStart
                       THEN lastHourExported.EpochEnd
                       ELSE b[1]
    IN  [skip |-> lastHourExported.EpochEnd = b[1],
         boundsStart |-> boundsStart,
         boundsEnd |-> IF currentExportedEpoch + 1 >= boundsStart
                          /\ currentExportedEpoch + 1 < b[2]
                       THEN currentExportedEpoch + 1
                       ELSE b[2]]

\* the body of the hour loop up to the call of aggregate1hSpecific
hourStepBounds(lastHourExported, currentExportedEpoch, epoch) ==
    LET b == getHourAggregateBounds(epoch)
        boundsStart == IF epoch = lastHourExported.EpochStart
                       THEN lastHourExported.EpochEnd
                       ELSE b[1]
        boundsEnd == IF currentExportedEpoch + 1 >= boundsStart
                        /\ currentExportedEpoch + 1 < b[2]
                     THEN currentExportedEpoch + 1
                     ELSE b[2]
    IN  [skip |-> lastHourExported.EpochEnd = b[2],
         boundsStart |-> boundsStart,
         boundsEnd |-> boundsEnd]

\* the body of the day loop up to the call of aggregateUtcDaySpecific
dayStepBounds(latestExportedDay, currentExportedEpoch, epoch) ==
    LET b == getDayAggregateBounds(epoch)
        boundsStart == IF epoch = latestExportedDay.EpochStart
                       THEN latestExportedDay.EpochEnd
                       ELSE b[1]
        boundsEnd == IF currentExportedEpoch + 1 >= boundsStart
                        /\ currentExportedEpoch + 1 < b[2]
                     THEN currentExportedEpoch + 1
                     ELSE b[2]
    IN  [skip |-> latestExportedDay.EpochEnd = b[2],
         boundsStart |-> boundsStart,
         boundsEnd |-> boundsEnd]

\* what a pass returns: the tables it leaves, the ranges it handed to the
\* per-bucket step (the last one failed when err is set), and its error
Outcome(rows, parts, writes, err, skipped) ==
    [rows |-> rows, parts |-> parts, writes |-> writes, err |-> err, skipped |-> skipped]

\* for epoch := lastHourExported.EpochStart; epoch <= currentEndBound; epoch += width
RECURSIVE walk1h(_, _, _, _, _, _, _)
walk1h(rows, parts, writes, lastHourExported, currentExportedEpoch, epoch, fault) ==
    IF epoch > getHourAggregateBounds(currentExportedEpoch)[2]
    THEN Outcome(rows, parts, writes, ErrNil, FALSE)
    ELSE LET s == hourStepBounds(lastHourExported, currentExportedEpoch, epoch)
             stage == IF fault.at = Len(writes) + 1 THEN fault.stage ELSE "none"
             r == aggregate1hSpecific(rows, parts, s.boundsStart, s.boundsEnd, stage)
             submitted == Append(writes, <<s.boundsStart, s.boundsEnd>>)
         IN  IF s.skip
             THEN walk1h(rows, parts, writes, lastHourExported, currentExportedEpoch,
                         epoch + getHourAggregateWidth, fault)
             ELSE IF r.err # ErrNil
             THEN Outcome(r.rows, r.parts, submitted, "failed to aggregate 1h", FALSE)
             ELSE walk1h(r.rows, r.parts, submitted, lastHourExported,
                         currentExportedEpoch, epoch + getHourAggregateWidth, fault)

\* hourGaps with the gaps ignored
hourGaps_Ignored(currentExportedEpoch) == {}

\* the gap query of the hour pass; int64(uint64 difference) is the signed difference
hourGaps(currentExportedEpoch) ==
    GetDashboardEpochGapsBetween(currentExportedEpoch,
        currentExportedEpoch + 1 - getRetentionEpochDuration)

aggregate1h(rows, parts, currentExportedEpoch, fault) ==
    LET lastHourExported == GetLastExported(rows)
        differenceToCurrentEpoch == U64Sub(currentExportedEpoch + 1, lastHourExported.EpochEnd)
        gaps == hourGaps(currentExportedEpoch)
    IN  IF fault.stage = "last"
        THEN Outcome(rows, parts, <<>>, "failed to get latest dashboard hourly epoch", FALSE)
        ELSE IF differenceToCurrentEpoch > getHourRetentionDurationEpochs
        THEN Outcome(rows, parts, <<>>, ErrNil, TRUE)
        ELSE IF fault.stage = "gaps"
        THEN Outcome(rows, parts, <<>>, "failed to get dashboard epoch gaps", FALSE)
        ELSE IF gaps # {}
        THEN Outcome(rows, parts, <<>>, "gaps in dashboard epoch", FALSE)
        ELSE walk1h(rows, parts, <<>>, lastHourExported, currentExportedEpoch,
                    lastHourExported.EpochStart, fault)

\* for epoch := latestExportedDay.EpochStart; epoch <= currentEndBound; epoch += width
RECURSIVE walkUtcDay(_, _, _, _, _, _, _)
walkUtcDay(rows, parts, writes, latestExportedDay, currentExportedEpoch, epoch, fault) ==
    IF epoch > getDayAggregateBounds(currentExportedEpoch)[2]
    THEN Outcome(rows, parts, writes, ErrNil, FALSE)
    ELSE LET s == dayStepBounds(latestExportedDay, currentExportedEpoch, epoch)
             stage == IF fault.at = Len(writes) + 1 THEN fault.stage ELSE "none"
             r == aggregateUtcDaySpecific(rows, parts, s.boundsStart, s.boundsEnd, stage)
             submitted == Append(writes, <<s.boundsStart, s.boundsEnd>>)
         IN  IF s.skip
             THEN walkUtcDay(rows, parts, writes, latestExportedDay, currentExportedEpoch,
                             epoch + GetDayAggregateWidth, fault)
             ELSE IF r.err # ErrNil
             THEN Outcome(r.rows, r.parts, submitted, "failed to aggregate utc day specific", FALSE)
             ELSE walkUtcDay(r.rows, r.parts, submitted, latestExportedDay,
                             currentExportedEpoch, epoch + GetDayAggregateWidth, fault)

\* the gap query of the day pass
dayGaps(currentExportedEpoch, latestExportedDay) ==
    GetDashboardEpochGapsBetween(currentExportedEpoch, latestExportedDay.EpochEnd)

utcDayAggregate(rows, parts, currentExportedEpoch, fault) ==
    LET latestExportedDay == GetLastExported(rows)
        gaps == dayGaps(currentExportedEpoch, latestExportedDay)
    IN  IF fault.stage = "last"
        THEN Outcome(rows, parts, <<>>, "failed to get latest daily epoch", FALSE)
        ELSE IF fault.stage = "gaps"
        THEN Outcome(rows, parts, <<>>, "failed to get dashboard epoch gaps", FALSE)
        ELSE IF gaps # {}
        THEN Outcome(rows, parts, <<>>, "gaps in dashboard epoch for utc day agg", FALSE)
        ELSE walkUtcDay(rows, parts, <<>>, latestExportedDay, currentExportedEpoch,
                        latestExportedDay.EpochStart, fault)

\* dayAggregate wraps the error of utcDayAggregate
dayAggregate(rows, parts, currentExportedEpoch, fault) ==
    utcDayAggregate(rows, parts, currentExportedEpoch, fault)

(***************************************************************************)
(* The sequential system: the epoch writer exports, the scheduler calls    *)
(* one pass at a time with the epoch it last saw exported.  The two        *)
(* aggregators write disjoint tables and both read the epoch table only,   *)
(* so one behaviour drives one of them (driven).                           *)
(***************************************************************************)
NoCall == [op |-> "none", e |-> 0, err |-> ErrNil, skipped |-> FALSE,
           committed |-> 0, after |-> "first", covered |-> 0]

\* the kind of error a pass returned: none, the gap refusal, a store failure
ErrClass(err) ==
    IF err = ErrNil THEN ErrNil
    ELSE IF err \in {"gaps in dashboard epoch", "gaps in dashboard epoch for utc day agg"}
    THEN "gaps"
    ELSE "store"

\* how a call that returned nil relates to the operation before it: a repeat of
\* the same call that had returned nil, the resumption of one that had failed
After(op, e, err) ==
    IF call.op = op /\ call.e = e /\ err = ErrNil
    THEN (IF call.err = ErrNil THEN "repeat"
          ELSE IF call.err = "store" THEN "resumed" ELSE "first")
    ELSE "first"

\* the bucket ranges a pass committed (the last range of a failed pass is not)
Committed(r) == IF r.err = ErrNil THEN Len(r.writes) ELSE Len(r.writes) - 1

Min(a, b) == IF a < b THEN a ELSE b

\* the end of the highest non-empty range among the first n of writes, or acc
RECURSIVE CoveredBy(_, _, _)
CoveredBy(writes, n, acc) ==
    IF n <= 0 THEN acc
    ELSE CoveredBy(writes, n - 1,
                   IF writes[n][1] < writes[n][2] /\ writes[n][2] > acc
                   THEN writes[n][2] ELSE acc)

Called(op, e, r) ==
    [op |-> op, e |-> e, err |-> ErrClass(r.err), skipped |-> r.skipped,
     committed |-> IF r.writes = <<>> THEN 0 ELSE Min(Committed(r), MaxFaultAt),
     after |-> After(op, e, r.err),
     covered |-> CoveredBy(r.writes, Committed(r), call.covered)]

Exported(e) == [NoCall EXCEPT !.op = "export", !.e = e, !.covered = call.covered]

\* the epochs below the head that the epoch table does not hold
Missing == {x \in 0..SourceHead : x \notin source}

HourProcs == {"h1", "h2"}

DayProcs == {"d1", "d2"}

Sweeper == "sweep"

Procs == HourProcs \cup DayProcs \cup {Sweeper}

Unlocked == "none"

NoPartition == <<0, 0>>

\* the locals of an invocation that has not been called
NoFrame == [arg |-> 0, last |-> NoBounds, epoch |-> 0, todo |-> {}, cur |-> NoPartition]

\* no invocation in progress, both mutexes free
Quiet ==
    /\ mutex = [hour |-> Unlocked, day |-> Unlocked]
    /\ pc = [p \in Procs |-> "idle"]
    /\ frame = [p \in Procs |-> NoFrame]

Init ==
    /\ Quiet
    /\ offset \in 0..MaxOffset
    /\ driven \in {"hour", "day"}
    /\ source = {}
    /\ hourly = {}
    /\ hourParts = {}
    /\ daily = {}
    /\ rolling = {}
    /\ dayParts = {}
    /\ call = NoCall

\* the scheduler has the aggregator driven keep up with the epoch writer, or has
\* not invoked it since an early epoch
KeepsUp ==
    LET last == GetLastExported(IF driven = "day" THEN daily ELSE hourly)
    IN  \/ last.EpochEnd <= MaxStall
        \/ SourceHead + 1 - last.EpochEnd < MaxLag

\* the epoch writer exports the next epoch, once it has backfilled what it left out
ExportEpoch ==
    /\ SourceHead < MaxEpoch
    /\ KeepsUp
    /\ Missing = {}
    /\ source' = source \cup {SourceHead + 1}
    /\ call' = Exported(SourceHead + 1)
    /\ UNCHANGED <<offset, rolling, driven, hourly, hourParts, daily, dayParts, threads>>

\* the epoch writer exports an epoch ahead of the next one and leaves a gap
ExportAhead ==
    /\ SourceHead + 1 < MaxEpoch
    /\ KeepsUp
    /\ Missing = {}
    /\ source' = source \cup {SourceHead + 2}
    /\ call' = Exported(SourceHead + 2)
    /\ UNCHANGED <<offset, rolling, driven, hourly, hourParts, daily, dayParts, threads>>

\* the epoch writer backfills a missing epoch
Backfill ==
    /\ \E x \in Missing :
        /\ source' = source \cup {x}
        /\ call' = Exported(x)
    /\ UNCHANGED <<offset, rolling, driven, hourly, hourParts, daily, dayParts, threads>>

\* the epochs the scheduler passes: the one it last saw exported
CallEpochs == IF source = {} THEN {} ELSE {SourceHead}

Aggregate1h(e, fault) ==
    /\ driven = "hour"
    /\ \E r \in {aggregate1h(hourly, hourParts, e, fault)} :
           /\ hourly' = r.rows
           /\ hourParts' = r.parts
           /\ call' = Called("aggregate1h", e, r)
    /\ UNCHANGED <<offset, rolling, driven, source, daily, dayParts, threads>>

DayAggregate(e, fault) ==
    /\ driven = "day"
    /\ \E r \in {dayAggregate(daily, dayParts, e, fault)} :
           /\ daily' = r.rows
           /\ dayParts' = r.parts
           /\ call' = Called("dayAggregate", e, r)
    /\ UNCHANGED <<offset, rolling, driven, source, hourly, hourParts, threads>>

Next ==
    \/ ExportEpoch
    \/ ExportAhead
    \/ Backfill
    \/ \E e \in CallEpochs, fault \in Faults : Aggregate1h(e, fault)
    \/ \E e \in CallEpochs, fault \in Faults : DayAggregate(e, fault)

Spec == Init /\ [][Next]_vars

(***************************************************************************)
(* The concurrent system: two invocations of aggregate1h, two of           *)
(* dayAggregate and one of clearOldHourAggregations, each advancing one    *)
(* store interaction at a time.                                            *)
(***************************************************************************)
InitConc ==
    /\ Quiet
    /\ offset = 0
    /\ driven \in {"hour", "day", "both"}
    /\ source = {}
    /\ hourly = {}
    /\ hourParts = {}
    /\ daily = {}
    /\ rolling = {}
    /\ dayParts = {}
    /\ call = NoCall

\* the invocations the scheduler issues: those of the aggregator it drives, or
\* one of each aggregator
Driven ==
    IF driven = "hour" THEN HourProcs \cup {Sweeper}
    ELSE IF driven = "day" THEN DayProcs
    ELSE {"h1", "d1"}

\* pc and frame with those of invocation p replaced
Goto(p, to, f) ==
    /\ pc' = [pc EXCEPT ![p] = to]
    /\ frame' = [frame EXCEPT ![p] = f]

\* sync.Mutex: Lock returns once no one holds the mutex
LockNoWait(holder) == TRUE

Lock(holder) == holder = Unlocked

\* the epoch writer exports the next epoch
ExportNext ==
    /\ SourceHead < ConcMaxEpoch
    /\ source' = source \cup {SourceHead + 1}
    /\ UNCHANGED <<offset, rolling, driven, call, hourly, hourParts, daily, dayParts, threads>>

\* aggregate1h(currentExportedEpoch) is invoked with the epoch last exported
HourCall(p) ==
    /\ pc[p] = "idle"
    /\ p \in Driven
    /\ source # {}
    /\ Goto(p, "lock", [NoFrame EXCEPT !.arg = SourceHead])
    /\ UNCHANGED <<offset, rolling, driven, call, source, hourly, hourParts, daily, dayParts, mutex>>

\* d.mutex.Lock()
HourLock(p) ==
    /\ pc[p] = "lock"
    /\ Lock(mutex.hour)
    /\ mutex' = [mutex EXCEPT !.hour = p]
    /\ Goto(p, "last", frame[p])
    /\ UNCHANGED <<offset, rolling, driven, call, source, hourly, hourParts, daily, dayParts>>

\* edb.GetLastExportedHour() and the retention test
HourLast(p) ==
    /\ pc[p] = "last"
    /\ LET lastHourExported == GetLastExported(hourly)
           differenceToCurrentEpoch == U64Sub(frame[p].arg + 1, lastHourExported.EpochEnd)
       IN  Goto(p, IF differenceToCurrentEpoch > getHourRetentionDurationEpochs
                   THEN "unlock" ELSE "gaps",
                [frame[p] EXCEPT !.last = lastHourExported])
    /\ UNCHANGED <<offset, rolling, driven, call, source, hourly, hourParts, daily, dayParts, mutex>>

\* edb.GetDashboardEpochGapsBetween and the entry of the loop
HourGaps(p) ==
    /\ pc[p] = "gaps"
    /\ LET f == frame[p]
           currentEndBound == getHourAggregateBounds(f.arg)[2]
       IN  Goto(p, IF hourGaps(f.arg) # {} \/ f.last.EpochStart > currentEndBound
                   THEN "unlock" ELSE "step",
                [f EXCEPT !.epoch = f.last.EpochStart])
    /\ UNCHANGED <<offset, rolling, driven, call, source, hourly, hourParts, daily, dayParts, mutex>>

\* one iteration of the loop of aggregate1h; the store may fail the merge
HourStep(p, stage) ==
    /\ pc[p] = "step"
    /\ LET f == frame[p]
           s == hourStepBounds(f.last, f.arg, f.epoch)
           r == IF s.skip THEN [rows |-> hourly, parts |-> hourParts, err |-> ErrNil]
                ELSE aggregate1hSpecific(hourly, hourParts, s.boundsStart, s.boundsEnd, stage)
           next == f.epoch + getHourAggregateWidth
       IN  /\ hourly' = r.rows
           /\ hourParts' = r.parts
           /\ Goto(p, IF r.err # ErrNil \/ next > getHourAggregateBounds(f.arg)[2]
                      THEN "unlock" ELSE "step",
                   [f EXCEPT !.epoch = next])
    /\ UNCHANGED <<offset, rolling, driven, call, source, daily, dayParts, mutex>>

\* defer d.mutex.Unlock()
HourUnlock(p) ==
    /\ pc[p] = "unlock"
    /\ mutex' = [mutex EXCEPT !.hour = Unlocked]
    /\ Goto(p, "idle", NoFrame)
    /\ UNCHANGED <<offset, rolling, driven, call, source, hourly, hourParts, daily, dayParts>>

\* dayAggregate(currentExportedEpoch) is invoked with the epoch last exported
DayCall(p) ==
    /\ pc[p] = "idle"
    /\ p \in Driven
    /\ source # {}
    /\ Goto(p, "lock", [NoFrame EXCEPT !.arg = SourceHead])
    /\ UNCHANGED <<offset, rolling, driven, call, source, hourly, hourParts, daily, dayParts, mutex>>

\* DayLock on a mutex shared with the hour aggregator
DayLock_SharedMutex(p) ==
    /\ pc[p] = "lock"
    /\ Lock(mutex.hour)
    /\ Lock(mutex.day)
    /\ mutex' = [mutex EXCEPT !.day = p]
    /\ Goto(p, "last", frame[p])
    /\ UNCHANGED <<offset, rolling, driven, call, source, hourly, hourParts, daily, dayParts>>

\* d.mutex.Lock()
DayLock(p) ==
    /\ pc[p] = "lock"
    /\ Lock(mutex.day)
    /\ mutex' = [mutex EXCEPT !.day = p]
    /\ Goto(p, "last", frame[p])
    /\ UNCHANGED <<offset, rolling, driven, call, source, hourly, hourParts, daily, dayParts>>

\* edb.GetLastExportedDay()
DayLast(p) ==
    /\ pc[p] = "last"
    /\ Goto(p, "gaps", [frame[p] EXCEPT !.last = GetLastExported(daily)])
    /\ UNCHANGED <<offset, rolling, driven, call, source, hourly, hourParts, daily, dayParts, mutex>>

\* edb.GetDashboardEpochGapsBetween and the entry of the loop
DayGaps(p) ==
    /\ pc[p] = "gaps"
    /\ LET f == frame[p]
           currentEndBound == getDayAggregateBounds(f.arg)[2]
       IN  Goto(p, IF dayGaps(f.arg, f.last) # {} \/ f.last.EpochStart > currentEndBound
                   THEN "unlock" ELSE "step",
                [f EXCEPT !.epoch = f.last.EpochStart])
    /\ UNCHANGED <<offset, rolling, driven, call, source, hourly, hourParts, daily, dayParts, mutex>>

\* one iteration of the loop of utcDayAggregate; the store may fail the merge
DayStep(p, stage) ==
    /\ pc[p] = "step"
    /\ LET f == frame[p]
           s == dayStepBounds(f.last, f.arg, f.epoch)
           r == IF s.skip THEN [rows |-> daily, parts |-> dayParts, err |-> ErrNil]
                ELSE aggregateUtcDaySpecific(daily, dayParts, s.boundsStart, s.boundsEnd, stage)
           next == f.epoch + GetDayAggregateWidth
       IN  /\ daily' = r.rows
           /\ dayParts' = r.parts
           /\ Goto(p, IF r.err # ErrNil \/ next > getDayAggregateBounds(f.arg)[2]
                      THEN "unlock" ELSE "step",
                   [f EXCEPT !.epoch = next])
    /\ UNCHANGED <<offset, rolling, driven, call, source, hourly, hourParts, mutex>>

\* defer d.mutex.Unlock()
DayUnlock(p) ==
    /\ pc[p] = "unlock"
    /\ mutex' = [mutex EXCEPT !.day = Unlocked]
    /\ Goto(p, "idle", NoFrame)
    /\ UNCHANGED <<offset, rolling, driven, call, source, hourly, hourParts, daily, dayParts>>

\* the decimal digits fmt.Sprintf("%d") writes and the pattern (\d+) reads
DigitChars == <<"0", "1", "2", "3", "4", "5", "6", "7", "8", "9">>

RECURSIVE FormatUint(_)
\* fmt.Sprintf("%d", n)
FormatUint(n) ==
    IF n < 10 THEN <<DigitChars[n + 1]>>
    ELSE FormatUint(n \div 10) \o <<DigitChars[(n % 10) + 1]>>

RECURSIVE ParseUint(_)
\* the number a run of decimal digits stands for
ParseUint(digits) ==
    IF digits = <<>> THEN 0
    ELSE LET d == CHOOSE x \in 0..9 : DigitChars[x + 1] = digits[Len(digits)]
         IN  ParseUint(SubSeq(digits, 1, Len(digits) - 1)) * 10 + d

\* validator_dashboard_data_hourly_%d_%d: the name of the partition that
\* createHourlyPartition makes and deleteHourlyPartition drops
HourlyPartitionName(epochStartFrom, epochStartTo) ==
    <<"validator_dashboard_data_hourly_">> \o FormatUint(epochStartFrom)
        \o <<"_">> \o FormatUint(epochStartTo)

\* parseEpochRange(`validator_dashboard_data_hourly_(\d+)_(\d+)`, partition)
parseEpochRange(partition) ==
    LET sep == CHOOSE i \in 2..Len(partition) : partition[i] = "_"
    IN  <<ParseUint(SubSeq(partition, 2, sep - 1)),
          ParseUint(SubSeq(partition, sep + 1, Len(partition)))>>

\* BelowRetention comparing the start of the range
BelowRetention_ByFrom(range, removeBelowEpoch) == range[1] < removeBelowEpoch

\* if int64(epochTo) < removeBelowEpoch
BelowRetention(range, removeBelowEpoch) == range[2] < removeBelowEpoch

\* edb.GetPartitionNamesOfTable("validator_dashboard_data_hourly")
GetPartitionNamesOfTable(parts) ==
    {HourlyPartitionName(partition[1], partition[2]) : partition \in parts}

\* the values of removeBelowEpoch the sweep is invoked with
SweepBelow == {PartitionEpochWidth * getHourAggregateWidth,
               PartitionEpochWidth * getHourAggregateWidth + 1}

\* clearOldHourAggregations(removeBelowEpoch) lists the partitions of the hourly table
SweepCall(removeBelowEpoch) ==
    /\ pc[Sweeper] = "idle"
    /\ Sweeper \in Driven
    /\ Goto(Sweeper, "next", [NoFrame EXCEPT !.arg = removeBelowEpoch, !.todo = GetPartitionNamesOfTable(hourParts)])
    /\ UNCHANGED <<offset, rolling, driven, call, source, hourly, hourParts, daily, dayParts, mutex>>

\* the head of the loop over the partitions listed, in the order the store gave
SweepNext ==
    /\ pc[Sweeper] = "next"
    /\ LET f == frame[Sweeper]
       IN  IF f.todo = {}
           THEN Goto(Sweeper, "idle", NoFrame)
           ELSE \E partition \in f.todo :
                   LET range == parseEpochRange(partition)
                   IN  Goto(Sweeper, IF BelowRetention(range, f.arg) THEN "lock" ELSE "next",
                            [f EXCEPT !.todo = f.todo \ {partition}, !.cur = range])
    /\ UNCHANGED <<offset, rolling, driven, call, source, hourly, hourParts, daily, dayParts, mutex>>

\* SweepLock without the mutex
SweepLock_NoMutex ==
    /\ pc[Sweeper] = "lock"
    /\ Goto(Sweeper, "drop", frame[Sweeper])
    /\ UNCHANGED <<offset, rolling, driven, call, source, hourly, hourParts, daily, dayParts, mutex>>

\* d.mutex.Lock()
SweepLock ==
    /\ pc[Sweeper] = "lock"
    /\ Lock(mutex.hour)
    /\ mutex' = [mutex EXCEPT !.hour = Sweeper]
    /\ Goto(Sweeper, "drop", frame[Sweeper])
    /\ UNCHANGED <<offset, rolling, driven, call, source, hourly, hourParts, daily, dayParts>>

\* DROP TABLE IF EXISTS: the partition goes, and the rows it holds with it
deleteHourlyPartition(rows, parts, epochStartFrom, epochStartTo) ==
    LET dropped == {partition \in parts :
                        HourlyPartitionName(partition[1], partition[2])
                            = HourlyPartitionName(epochStartFrom, epochStartTo)}
    IN  [rows |-> {r \in rows : \A partition \in dropped :
                        ~(partition[1] <= r.epoch_start /\ r.epoch_start < partition[2])},
         parts |-> parts \ dropped]

\* where the store fails the sweep, if it does
SweepFaults == {"none", "drop"}

\* d.deleteHourlyPartition(epochFrom, epochTo): a drop the store fails leaves the
\* partition as it is
SweepDrop(stage) ==
    /\ pc[Sweeper] = "drop"
    /\ LET f == frame[Sweeper]
           r == deleteHourlyPartition(hourly, hourParts, f.cur[1], f.cur[2])
       IN  IF stage = "drop"
           THEN /\ UNCHANGED <<hourly, hourParts>>
                /\ Goto(Sweeper, "failed", f)
           ELSE /\ hourly' = r.rows
                /\ hourParts' = r.parts
                /\ Goto(Sweeper, "unlock", f)
    /\ UNCHANGED <<offset, rolling, driven, call, source, daily, dayParts, mutex>>

\* SweepUnlock with the error of a failed drop returned before the Unlock
SweepUnlock_ReturnBeforeUnlock ==
    /\ pc[Sweeper] \in {"unlock", "failed"}
    /\ IF pc[Sweeper] = "failed"
       THEN /\ UNCHANGED mutex
            /\ Goto(Sweeper, "idle", NoFrame)
       ELSE /\ mutex' = [mutex EXCEPT !.hour = Unlocked]
            /\ Goto(Sweeper, "next", frame[Sweeper])
    /\ UNCHANGED <<offset, rolling, driven, call, source, hourly, hourParts, daily, dayParts>>

\* d.mutex.Unlock(), and the return of the error of a drop that failed
SweepUnlock ==
    /\ pc[Sweeper] \in {"unlock", "failed"}
    /\ mutex' = [mutex EXCEPT !.hour = IF mutex.hour = Sweeper THEN Unlocked ELSE mutex.hour]
    /\ IF pc[Sweeper] = "failed"
       THEN Goto(Sweeper, "idle", NoFrame)
       ELSE Goto(Sweeper, "next", frame[Sweeper])
    /\ UNCHANGED <<offset, rolling, driven, call, source, hourly, hourParts, daily, dayParts>>

\* where the store fails a bucket step, if it does
StepFaults == {"none", "write"}

NextConc ==
    \/ ExportNext
    \/ \E p \in HourProcs : HourCall(p)
    \/ \E p \in HourProcs : HourLock(p)
    \/ \E p \in HourProcs : HourLast(p)
    \/ \E p \in HourProcs : HourGaps(p)
    \/ \E p \in HourProcs, stage \in StepFaults : HourStep(p, stage)
    \/ \E p \in HourProcs : HourUnlock(p)
    \/ \E p \in DayProcs : DayCall(p)
    \/ \E p \in DayProcs : DayLock(p)
    \/ \E p \in DayProcs : DayLast(p)
    \/ \E p \in DayProcs : DayGaps(p)
    \/ \E p \in DayProcs, stage \in StepFaults : DayStep(p, stage)
    \/ \E p \in DayProcs : DayUnlock(p)
    \/ \E removeBelowEpoch \in SweepBelow : SweepCall(removeBelowEpoch)
    \/ SweepNext
    \/ SweepLock
    \/ \E stage \in SweepFaults : SweepDrop(stage)
    \/ SweepUnlock

SpecConc == InitConc /\ [][NextConc]_vars

\* an invocation that was called keeps running: each of its steps after the call
\* is taken once it stays possible, and sync.Mutex hands the lock to an
\* invocation that waits for it (a waiter is not passed over for ever)
FairConc ==
    /\ \A p \in HourProcs :
            /\ WF_vars(HourLast(p) \/ HourGaps(p) \/ HourUnlock(p)
                        \/ \E stage \in StepFaults : HourStep(p, stage))
            /\ SF_vars(HourLock(p))
    /\ \A p \in DayProcs :
            /\ WF_vars(DayLast(p) \/ DayGaps(p) \/ DayUnlock(p)
                        \/ \E stage \in StepFaults : DayStep(p, stage))
            /\ SF_vars(DayLock(p))
    /\ WF_vars(SweepNext \/ SweepUnlock \/ \E stage \in SweepFaults : SweepDrop(stage))
    /\ SF_vars(SweepLock)

LiveMaxEpoch == 1

\* the epoch writer exports the next epoch
ExportLive ==
    /\ SourceHead < LiveMaxEpoch
    /\ source' = source \cup {SourceHead + 1}
    /\ UNCHANGED <<offset, rolling, driven, call, hourly, hourParts, daily, dayParts, threads>>

NextLive ==
    \/ ExportLive
    \/ \E p \in HourProcs : HourCall(p)
    \/ \E p \in HourProcs : HourLock(p)
    \/ \E p \in HourProcs : HourLast(p)
    \/ \E p \in HourProcs : HourGaps(p)
    \/ \E p \in HourProcs, stage \in StepFaults : HourStep(p, stage)
    \/ \E p \in HourProcs : HourUnlock(p)
    \/ \E p \in DayProcs : DayCall(p)
    \/ \E p \in DayProcs : DayLock(p)
    \/ \E p \in DayProcs : DayLast(p)
    \/ \E p \in DayProcs : DayGaps(p)
    \/ \E p \in DayProcs, stage \in StepFaults : DayStep(p, stage)
    \/ \E p \in DayProcs : DayUnlock(p)
    \/ \E removeBelowEpoch \in SweepBelow : SweepCall(removeBelowEpoch)
    \/ SweepNext
    \/ SweepLock
    \/ \E stage \in SweepFaults : SweepDrop(stage)
    \/ SweepUnlock

SpecLive == InitConc /\ [][NextLive]_vars /\ FairConc


(***************************************************************************)
(* Properties of the sequential system.                                    *)
(***************************************************************************)
Passes == {"aggregate1h", "dayAggregate"}

\* the bucket rows as (epoch_start, epoch_end, reward)
Buckets(rows) == {<<r.epoch_start, r.epoch_end, r.reward>> : r \in rows}

\* every row holds the sums of the source rows of [epoch_start, epoch_end)
RowsExact(rows) ==
    \A r \in rows :
        /\ r.reward = SumReward(r.epoch_start, r.epoch_end - 1)
        /\ r.deposits_amount = SumDeposits(r.epoch_start, r.epoch_end - 1)

\* a bucket row that does not reach the end of its bucket yet
OpenHourRow(r) == r.epoch_end < getHourAggregateBounds(r.epoch_start)[2]

\* C1: after any sequence of hour and day passes, failed ones included, called
\* with the epoch last exported, every bucket row's sums are the sums of the
\* source rows of its [epoch_start, epoch_end): nothing twice, nothing left out.
C1_ExactlyOnce == RowsExact(hourly) /\ RowsExact(daily)

\* an hour pass resumed after a failure that had committed a bucket, on a table
\* of several buckets, the last one open
C1_Witness ==
    /\ call.op = "aggregate1h"
    /\ call.after = "resumed"
    /\ Cardinality(hourly) >= 3
    /\ \E r \in hourly : OpenHourRow(r)

\* C2: a pass called again with the same epoch right after it returned nil, with
\* no export in between, leaves every bucket row as it is.
C2_IdempotentResume ==
    [][(call.op \in Passes /\ call.err = ErrNil
            /\ call'.op = call.op /\ call'.e = call.e)
        => (hourly' = hourly /\ daily' = daily)]_vars

\* the second of two equal hour passes, on a table whose last bucket is open
C2_Witness ==
    /\ call.op = "aggregate1h"
    /\ call.after = "repeat"
    /\ ~call.skipped
    /\ \E r \in hourly : OpenHourRow(r)

\* the table a single hour pass, or day pass, builds from empty tables
OnePassHour(e) == aggregate1h({}, {}, e, NoFault)

OnePassDay(e) == dayAggregate({}, {}, e, NoFault)

\* the table was built from empty by one pass that ended on a bucket boundary
SplitHour ==
    LET k == GetLastExported(hourly).EpochEnd
    IN  /\ hourly # {}
        /\ getHourAggregateBounds(k)[1] = k
        /\ hourly = OnePassHour(k - 1).rows

SplitDay ==
    LET k == GetLastExported(daily).EpochEnd
    IN  /\ daily # {}
        /\ getDayAggregateBounds(k)[1] = k
        /\ daily = OnePassDay(k - 1).rows

\* C3 as stated: a pass over [0,k), k on a bucket boundary, followed by a pass up
\* to N-1 builds the rows that one pass up to N-1 builds from empty, for every N.
C3_Original ==
    [][/\ (call'.op = "aggregate1h" /\ call'.err = ErrNil /\ SplitHour)
            => hourly' = OnePassHour(call'.e).rows
       /\ (call'.op = "dayAggregate" /\ call'.err = ErrNil /\ SplitDay)
            => daily' = OnePassDay(call'.e).rows]_vars

\* C3: a pass over [0,k), k on a bucket boundary, followed by a pass up to N-1
\* builds the rows that one pass up to N-1 builds from empty: for the day table
\* for every N, for the hour table for N up to getHourRetentionDurationEpochs.
C3_IncrementalEquivalence ==
    [][/\ (/\ call'.op = "aggregate1h" /\ call'.err = ErrNil /\ SplitHour
           /\ call'.e + 1 <= getHourRetentionDurationEpochs)
            => hourly' = OnePassHour(call'.e).rows
       /\ (call'.op = "dayAggregate" /\ call'.err = ErrNil /\ SplitDay)
            => daily' = OnePassDay(call'.e).rows]_vars

\* an hour table of closed buckets and an open one, left by a pass that only
\* added to it, equal to the table of one pass
C3_Witness ==
    /\ call.op = "aggregate1h" /\ call.err = ErrNil /\ ~call.skipped
    /\ call.after = "first"
    /\ call.e + 1 <= getHourRetentionDurationEpochs
    /\ Cardinality(hourly) >= 4
    /\ \E r \in hourly : OpenHourRow(r)
    /\ hourly = OnePassHour(call.e).rows

\* one row per bucket that intersects [0, e+1), cut at e+1, counting its epochs
ExpectedBuckets(e) ==
    {<<s, Min(s + getHourAggregateWidth, e + 1), Min(s + getHourAggregateWidth, e + 1) - s>> :
        s \in {x \in 0..e : x % getHourAggregateWidth = 0}}

\* an hour pass that starts on an empty hour table with the source epochs 0..e
FromEmpty ==
    /\ call'.op = "aggregate1h" /\ call'.err = ErrNil
    /\ hourly = {} /\ offset = 0 /\ source = 0..call'.e

\* C4 as stated: from an empty table and the source epochs 0..e, an hour pass
\* leaves one row per bucket intersecting [0,e+1), the last one ending at e+1.
C4_Original ==
    [][FromEmpty => Buckets(hourly') = ExpectedBuckets(call'.e)]_vars

\* C4: from an empty table and the source epochs 0..e with
\* e+1 <= getHourRetentionDurationEpochs, an hour pass leaves one row per
\* bucket intersecting [0,e+1), the last one ending at e+1.
C4_BucketContent ==
    [][(FromEmpty /\ call'.e + 1 <= getHourRetentionDurationEpochs)
        => Buckets(hourly') = ExpectedBuckets(call'.e)]_vars

\* the pass of epoch 6 has left three whole buckets and the open one [6,7)
C4_Witness ==
    /\ call.op = "aggregate1h" /\ call.err = ErrNil /\ call.e = 6
    /\ source = 0..6
    /\ Buckets(hourly) = {<<0, 2, 2>>, <<2, 4, 2>>, <<4, 6, 2>>, <<6, 7, 1>>}

\* a source epoch between the end of the last bucket row and e is missing
GapBetween(rows, e) == \E x \in GetLastExported(rows).EpochEnd..e : x \notin source

\* C5 as stated: with a source epoch missing between the end of the last bucket
\* and e, the pass returns an error, writes no row and creates no partition.
C5_Original ==
    [][/\ (call'.op = "aggregate1h" /\ GapBetween(hourly, call'.e))
            => (call'.err # ErrNil /\ hourly' = hourly /\ hourParts' = hourParts)
       /\ (call'.op = "dayAggregate" /\ GapBetween(daily, call'.e))
            => (call'.err # ErrNil /\ daily' = daily /\ dayParts' = dayParts)]_vars

\* C5: with a source epoch missing between the end of the last bucket and e,
\* the pass writes no row and creates no partition, and it returns an error,
\* except that the hour pass returns nil when the last bucket is more than
\* getHourRetentionDurationEpochs behind e+1.
C5_GapRefusal ==
    [][/\ (call'.op = "aggregate1h" /\ GapBetween(hourly, call'.e))
            => /\ hourly' = hourly /\ hourParts' = hourParts
               /\ \/ call'.err # ErrNil
                  \/ U64Sub(call'.e + 1, GetLastExported(hourly).EpochEnd)
                        > getHourRetentionDurationEpochs
       /\ (call'.op = "dayAggregate" /\ GapBetween(daily, call'.e))
            => (call'.err # ErrNil /\ daily' = daily /\ dayParts' = dayParts)]_vars

\* an hour pass has refused a gap behind a table that holds buckets
C5_Witness ==
    /\ call.op = "aggregate1h" /\ call.err = "gaps"
    /\ hourly # {}
    /\ GapBetween(hourly, call.e)

\* the table a pass has reached when it stopped at the end of the last bucket
UpToLast(rows, parts, after) ==
    IF after = {} THEN {}
    ELSE aggregate1h(rows, parts, GetLastExported(after).EpochEnd - 1, NoFault).rows

UpToLastDay(rows, parts, after) ==
    IF after = {} THEN {}
    ELSE dayAggregate(rows, parts, GetLastExported(after).EpochEnd - 1, NoFault).rows

\* C6 as stated: a pass that returns an error leaves the bucket table exactly
\* as it was before the pass.
C6_Original ==
    [][(call'.op \in Passes /\ call'.err # ErrNil)
        => (hourly' = hourly /\ daily' = daily)]_vars

\* C6: a pass that returns an error leaves the bucket table as the bucket
\* ranges it committed before the failing one left it, exactly as it was before
\* the pass when the first range fails: the failing range changes no row.
C6_PassAtomicity ==
    [][/\ (call'.op = "aggregate1h" /\ call'.err # ErrNil)
            => hourly' = (IF call'.committed = 0 THEN hourly
                          ELSE UpToLast(hourly, hourParts, hourly'))
       /\ (call'.op = "dayAggregate" /\ call'.err # ErrNil)
            => daily' = (IF call'.committed = 0 THEN daily
                         ELSE UpToLastDay(daily, dayParts, daily'))]_vars

\* an hour pass has failed after it committed a bucket range
C6_Witness ==
    /\ call.op = "aggregate1h" /\ call.err = "store"
    /\ call.committed >= 1
    /\ hourly # {}

\* the rows of the closed buckets before the last one
Settled(rows) == {r \in rows : r.epoch_start < GetLastExported(rows).EpochStart}

\* C7: after a pass that failed, the same pass invoked again builds the table
\* the pass would have built had it not failed, and the failure leaves the rows
\* of the buckets before the last one as they were.
C7_CrashSafeResume ==
    [][/\ (call'.op = "aggregate1h" /\ call'.err # ErrNil
                /\ (hourly' # hourly \/ hourParts' # hourParts))
            => /\ aggregate1h(hourly', hourParts', call'.e, NoFault).rows
                    = aggregate1h(hourly, hourParts, call'.e, NoFault).rows
               /\ Settled(hourly) \subseteq hourly'
       /\ (call'.op = "dayAggregate" /\ call'.err # ErrNil
                /\ (daily' # daily \/ dayParts' # dayParts))
            => /\ dayAggregate(daily', dayParts', call'.e, NoFault).rows
                    = dayAggregate(daily, dayParts, call'.e, NoFault).rows
               /\ Settled(daily) \subseteq daily']_vars

\* an hour pass has run again after a store failure and caught up with its epoch
C7_Witness ==
    /\ call.op = "aggregate1h" /\ call.after = "resumed"
    /\ Cardinality(hourly) >= 2
    /\ GetLastExported(hourly).EpochEnd = call.e + 1

\* C8 as stated: when the merge write or the commit of a bucket range fails, the
\* partition created for the range is rolled back with it: a pass whose first
\* range fails leaves the partitions as they were.
C8_PartitionInTransaction ==
    [][(call'.op \in Passes /\ call'.err = "store" /\ call'.committed = 0)
        => (hourParts' = hourParts /\ dayParts' = dayParts)]_vars

(***************************************************************************)
(* Properties of the concurrent system.                                    *)
(***************************************************************************)
\* invocation p is between the read of the last exported bucket and the end of
\* its last merge write
InPass(p) == pc[p] \in {"last", "gaps", "step"}

\* an aggregate1h invocation executes an iteration of its loop in this step
HourStepTaken == \E p \in HourProcs : pc[p] = "step" /\ frame'[p] # frame[p]

\* the sweep has listed the partitions and has a stale one left to drop
Sweeping ==
    \/ pc[Sweeper] \in {"lock", "drop"}
    \/ /\ pc[Sweeper] \in {"next", "unlock"}
       /\ \E partition \in frame[Sweeper].todo : parseEpochRange(partition)[2] < frame[Sweeper].arg

\* C9: no two aggregate1h invocations, and no two dayAggregate invocations, are
\* at once between the read of the last exported bucket and the end of their
\* last merge write.
C9_MutualExclusion ==
    /\ \A p, q \in HourProcs : (InPass(p) /\ InPass(q)) => p = q
    /\ \A p, q \in DayProcs : (InPass(p) /\ InPass(q)) => p = q

\* an hour pass in the middle of its walk while the other invocation waits
C9_Witness ==
    /\ pc["h1"] = "step" /\ frame["h1"].epoch > frame["h1"].last.EpochStart
    /\ pc["h2"] = "lock"
    /\ hourly # {}

C11_IndependentLocks ==
    /\ mutex.hour \in HourProcs \cup {Sweeper, Unlocked}
    /\ mutex.day \in DayProcs \cup {Unlocked}
    /\ \A p \in HourProcs :
        (pc[p] = "lock" /\ mutex.hour = Unlocked) => ENABLED HourLock(p)
    /\ \A p \in DayProcs :
        (pc[p] = "lock" /\ mutex.day = Unlocked) => ENABLED DayLock(p)

\* an hour pass and a day pass are both in the middle of their walk, and while
\* the hour pass holds its mutex the day pass has taken the other
C11_Witness ==
    /\ pc["h1"] = "step" /\ mutex.hour = "h1"
    /\ pc["d1"] = "step" /\ mutex.day = "d1"
    /\ hourly # {} /\ daily # {}

\* the ranges of writes from the first to the n-th go up without overlap, the
\* non-empty ones starting no lower than the epochs covered before
InOrder(writes, n, covered) ==
    \A i \in 1..n :
        writes[i][1] < writes[i][2]
            => /\ writes[i][1] >= covered
               /\ \A j \in 1..(i - 1) : writes[j][2] <= writes[i][1]

\* the ranges a pass of this step submitted and committed
CommittedOf(r) == IF call'.err = ErrNil THEN Len(r.writes) ELSE call'.committed

\* C12 as stated: the ranges the passes of one aggregator commit to the merge
\* write go up in epoch order within a pass and from pass to pass, and no epoch
\* lies in two non-empty ranges.
C12_Ordering ==
    [][/\ call'.op = "aggregate1h"
            => \E r \in {aggregate1h(hourly, hourParts, call'.e, NoFault)} :
                    InOrder(r.writes, CommittedOf(r), call.covered)
       /\ call'.op = "dayAggregate"
            => \E r \in {dayAggregate(daily, dayParts, call'.e, NoFault)} :
                    InOrder(r.writes, CommittedOf(r), call.covered)]_vars

\* int64(x) of a uint64 x
Int64(x) == IF x >= Uint64Modulus \div 2 THEN x - Uint64Modulus ELSE x

\* getBootstrapBounds with the tail at the latest hour bucket itself
getBootstrapBounds_NoDayBack(latestExportedHourEpoch) ==
    LET currentStartBounds == getHourAggregateBounds(latestExportedHourEpoch)[1]
    IN  <<currentStartBounds, currentStartBounds>>

\* DayRollingAggregatorImpl.getBootstrapBounds: the start of the hour bucket a
\* day before the latest one, and the start of the latest one
getBootstrapBounds(latestExportedHourEpoch) ==
    LET currentStartBounds == getHourAggregateBounds(latestExportedHourEpoch)[1]
        dayOldEpoch == Int64(U64Sub(currentStartBounds, EpochsPerDay))
        dayOldBoundsStart ==
            getHourAggregateBounds(IF dayOldEpoch < 0 THEN 0 ELSE dayOldEpoch)[1]
    IN  <<dayOldBoundsStart, currentStartBounds>>

(***************************************************************************)
(* The bounds functions on their own: one application per step, under      *)
(* every genesis offset.                                                   *)
(***************************************************************************)
InitBounds ==
    /\ Quiet
    /\ offset \in 0..BoundsMaxOffset
    /\ driven = "none"
    /\ source = {}
    /\ hourly = {}
    /\ hourParts = {}
    /\ daily = {}
    /\ rolling = {}
    /\ dayParts = {}
    /\ call = NoCall

\* getHourAggregateBounds(epoch) and getDayAggregateBounds(epoch) are called,
\* GetHourPartitionRange with the start of the hour bucket, and getBootstrapBounds
\* with epoch as the latest hourly epoch
GetBounds(epoch) ==
    /\ call' = [op |-> "bounds", e |-> epoch,
                hour |-> getHourAggregateBounds(epoch),
                day |-> getDayAggregateBounds(epoch),
                partition |-> GetHourPartitionRange(getHourAggregateBounds(epoch)[1]),
                bootstrap |-> getBootstrapBounds(epoch)]
    /\ UNCHANGED <<offset, rolling, driven, source, hourly, hourParts, daily, dayParts, threads>>

NextBounds == \E epoch \in 0..BoundsMaxEpoch : GetBounds(epoch)

SpecBounds == InitBounds /\ [][NextBounds]_vars

\* the bucket of width that holds epoch starts below the genesis offset
Clamped(epoch, width) == ((epoch + offset) \div width) * width < offset

\* C13 as stated: the bounds returned for epoch e hold e + g, and are one bucket
\* width apart unless the bucket is the first one, clamped at genesis.
C13_Original ==
    call.op = "bounds" =>
        /\ call.hour[1] <= call.e + offset /\ call.e + offset < call.hour[2]
        /\ call.hour[2] - call.hour[1] = getHourAggregateWidth
                \/ Clamped(call.e, getHourAggregateWidth)
        /\ call.day[1] <= call.e + offset /\ call.e + offset < call.day[2]
        /\ call.day[2] - call.day[1] = GetDayAggregateWidth
                \/ Clamped(call.e, GetDayAggregateWidth)

\* C13: the bounds returned for epoch e are epochs counted from genesis: they
\* hold e itself (start + g <= e + g < end + g), and are one bucket width apart
\* unless the bucket is the first one, clamped at genesis.
C13_HalfOpenTiling ==
    call.op = "bounds" =>
        /\ call.hour[1] <= call.e /\ call.e < call.hour[2]
        /\ call.hour[2] - call.hour[1] = getHourAggregateWidth
                \/ Clamped(call.e, getHourAggregateWidth)
        /\ call.day[1] <= call.e /\ call.e < call.day[2]
        /\ call.day[2] - call.day[1] = GetDayAggregateWidth
                \/ Clamped(call.e, GetDayAggregateWidth)

\* the bounds of an epoch in the first hour bucket, clamped at a genesis offset
\* that the hour width does not divide
C13_Witness ==
    /\ call.op = "bounds"
    /\ offset % getHourAggregateWidth # 0
    /\ Clamped(call.e, getHourAggregateWidth)
    /\ call.hour = <<0, getHourAggregateWidth - (offset % getHourAggregateWidth)>>
    /\ call.day[1] = 0
    /\ call.day[2] - call.day[1] < GetDayAggregateWidth

\* the bounds (s,t) hold epoch, the bounds of t start at t, the bounds of any
\* other epoch are the same or disjoint, and s + g is a multiple of width
\* unless s is 0
Contiguous(bounds, ofEpoch, epoch, width) ==
    /\ bounds[1] <= epoch /\ epoch < bounds[2]
    /\ ofEpoch[bounds[2]][1] = bounds[2]
    /\ \A other \in DOMAIN ofEpoch :
            \/ ofEpoch[other] = bounds
            \/ ofEpoch[other][2] <= bounds[1]
            \/ bounds[2] <= ofEpoch[other][1]
    /\ (bounds[1] + offset) % width = 0 \/ bounds[1] = 0

\* C14: for every epoch e and offset g, the hour and day bounds (s,t) of e hold
\* e, the bounds of epoch t start at t, any two epochs have identical or
\* disjoint bounds, and s + g is a multiple of the bucket width unless s was
\* clamped to 0.
C14_ContiguousAligned ==
    call.op = "bounds" =>
        /\ Contiguous(call.hour,
                      [e \in 0..(BoundsMaxEpoch + getHourAggregateWidth) |->
                            getHourAggregateBounds(e)],
                      call.e, getHourAggregateWidth)
        /\ Contiguous(call.day,
                      [e \in 0..(BoundsMaxEpoch + GetDayAggregateWidth) |->
                            getDayAggregateBounds(e)],
                      call.e, GetDayAggregateWidth)

\* the bounds of the last epoch of a whole hour bucket and a whole day bucket
\* that start above 0, under an offset that neither width divides
C14_Witness ==
    /\ call.op = "bounds"
    /\ offset % getHourAggregateWidth # 0
    /\ call.hour[1] > 0 /\ call.hour[2] = call.e + 1
    /\ call.hour[2] - call.hour[1] = getHourAggregateWidth
    /\ call.day[1] > 0 /\ call.day[2] = call.e + 1
    /\ call.day[2] - call.day[1] = GetDayAggregateWidth

\* clearOldHourAggregations returns nil: its loop over the partitions is over
SweepReturnsNil ==
    /\ pc[Sweeper] = "next" /\ frame[Sweeper].todo = {}
    /\ pc'[Sweeper] = "idle"

\* C15 as stated: when clearOldHourAggregations(T) returns without error, no
\* hourly partition [from,to) with to <= T is left.
C15_RetentionComplete ==
    [][SweepReturnsNil =>
            \A partition \in hourParts' : partition[2] > frame[Sweeper].arg]_vars

(***************************************************************************)
(* The rolling 24h table and its bootstrap.                                *)
(***************************************************************************)
\* SUM(reward), SUM(deposits_amount) over rows
RECURSIVE SumRows(_)
SumRows(rows) ==
    IF rows = {} THEN [reward |-> 0, deposits_amount |-> 0]
    ELSE LET r == CHOOSE x \in rows : TRUE
             rest == SumRows(rows \ {r})
         IN  [reward |-> r.reward + rest.reward,
              deposits_amount |-> r.deposits_amount + rest.deposits_amount]

\* a NULL epoch_end
NoEpoch == -1

\* INSERT INTO validator_dashboard_data_rolling_daily ... FROM aggregate: one row
\* (one entity) summing the hour buckets with epoch_start in
\* [dayOldBoundsStart, latestHourlyEpoch], ending where the head bucket ends
RollingRows(rows, dayOldBoundsStart, latestHourlyEpoch) ==
    LET aggregate == {r \in rows : r.epoch_start >= dayOldBoundsStart
                                    /\ r.epoch_start <= latestHourlyEpoch}
        epoch_ends == {r.epoch_end : r \in {x \in rows : x.epoch_start = latestHourlyEpoch}}
        balance_starts == {r.balance_start : r \in {x \in rows : x.epoch_start = dayOldBoundsStart}}
        balance_ends == {r.balance_end : r \in {x \in rows : x.epoch_start = latestHourlyEpoch}}
        sums == SumRows(aggregate)
    IN  IF aggregate = {} THEN {}
        ELSE {[epoch_start |-> dayOldBoundsStart,
               epoch_end |-> IF epoch_ends = {} THEN NoEpoch
                             ELSE CHOOSE x \in epoch_ends : TRUE,
               reward |-> sums.reward,
               deposits_amount |-> sums.deposits_amount,
               balance_start |-> IF balance_starts = {} THEN NoBalance
                                 ELSE CHOOSE x \in balance_starts : TRUE,
               balance_end |-> IF balance_ends = {} THEN NoBalance
                               ELSE CHOOSE x \in balance_ends : TRUE]}

\* where the store fails a bootstrap, if it does
BootstrapFaults == {"none", "last", "check", "truncate", "insert"}

\* what bootstrap returns: the rolling table as its transaction has it, the
\* tail it looked for, and its error
Bootstrapped(tx, tail, err) == [tx |-> tx, tail |-> tail, err |-> err]

\* bootstrap inserting into the rolling table without truncating it
bootstrap_NoTruncate(table, rows, fault) ==
    LET bounds == getBootstrapBounds(GetLastExported(rows).EpochStart)
        found == \E r \in rows : r.epoch_start = bounds[1]
    IN  IF fault = "last"
        THEN Bootstrapped(table, NoEpoch, "store")
        ELSE IF fault = "check" \/ ~found
        THEN Bootstrapped(table, bounds[1], "failed to check if tail exists")
        ELSE IF fault = "truncate"
        THEN Bootstrapped(table, bounds[1], "store")
        ELSE IF fault = "insert"
        THEN Bootstrapped(table, bounds[1], "store")
        ELSE Bootstrapped(table \cup RollingRows(rows, bounds[1], bounds[2]),
                          bounds[1], ErrNil)

\* bootstrap truncating the rolling table before it looks for the tail
bootstrap_TruncateFirst(table, rows, fault) ==
    LET bounds == getBootstrapBounds(GetLastExported(rows).EpochStart)
        found == \E r \in rows : r.epoch_start = bounds[1]
    IN  IF fault \in {"last", "truncate"}
        THEN Bootstrapped(table, NoEpoch, "store")
        ELSE IF fault = "check" \/ ~found
        THEN Bootstrapped({}, bounds[1], "failed to check if tail exists")
        ELSE IF fault = "insert"
        THEN Bootstrapped({}, bounds[1], "store")
        ELSE Bootstrapped(RollingRows(rows, bounds[1], bounds[2]), bounds[1], ErrNil)

\* DayRollingAggregatorImpl.bootstrap(tx, days, tableName)
bootstrap(table, rows, fault) ==
    LET bounds == getBootstrapBounds(GetLastExported(rows).EpochStart)
        found == \E r \in rows : r.epoch_start = bounds[1]
    IN  IF fault = "last"
        THEN Bootstrapped(table, NoEpoch, "store")
        ELSE IF fault = "check" \/ ~found
        THEN Bootstrapped(table, bounds[1], "failed to check if tail exists")
        ELSE IF fault = "truncate"
        THEN Bootstrapped(table, bounds[1], "store")
        ELSE IF fault = "insert"
        THEN Bootstrapped({}, bounds[1], "store")
        ELSE Bootstrapped(RollingRows(rows, bounds[1], bounds[2]), bounds[1], ErrNil)

\* Bootstrap with the statements of bootstrap run on the connection, outside the
\* transaction: what they did stays when bootstrap returns an error
Bootstrap_NoTransaction(fault) ==
    /\ \E r \in {bootstrap(rolling, hourly, fault)} :
           /\ rolling' = r.tx
           /\ call' = [op |-> "bootstrap", e |-> 0, err |-> r.err, skipped |-> FALSE,
                       committed |-> 0, after |-> "first", covered |-> call.covered,
                       tx |-> r.tx, tail |-> r.tail]
    /\ UNCHANGED <<offset, driven, source, hourly, hourParts, daily, dayParts, threads>>

\* the rolling engine opens a transaction, calls bootstrap, and commits when it
\* returns nil; it rolls back otherwise
Bootstrap(fault) ==
    /\ \E r \in {bootstrap(rolling, hourly, fault)} :
           /\ rolling' = IF r.err = ErrNil THEN r.tx ELSE rolling
           /\ call' = [op |-> "bootstrap", e |-> 0, err |-> r.err, skipped |-> FALSE,
                       committed |-> 0, after |-> "first", covered |-> call.covered,
                       tx |-> r.tx, tail |-> r.tail]
    /\ UNCHANGED <<offset, driven, source, hourly, hourParts, daily, dayParts, threads>>

(***************************************************************************)
(* Hour passes and retention sweeps, one call after the other.             *)
(***************************************************************************)
\* what a sweep returns: the table it leaves, the ranges whose partition it
\* dropped, and its error
Swept(rows, parts, dropped, err) ==
    [rows |-> rows, parts |-> parts, dropped |-> dropped, err |-> err]

\* for _, partition := range partitions, the failAt-th drop failing
RECURSIVE sweepPartitions(_, _, _, _, _, _, _)
sweepPartitions(rows, parts, dropped, partitions, i, removeBelowEpoch, failAt) ==
    IF i > Len(partitions) THEN Swept(rows, parts, dropped, ErrNil)
    ELSE LET range == parseEpochRange(partitions[i])
         IN  IF BelowRetention(range, removeBelowEpoch)
             THEN IF Len(dropped) + 1 = failAt
                  THEN Swept(rows, parts, dropped, "failed to delete hourly partition")
                  ELSE LET r == deleteHourlyPartition(rows, parts, range[1], range[2])
                       IN  sweepPartitions(r.rows, r.parts, Append(dropped, range),
                                           partitions, i + 1, removeBelowEpoch, failAt)
             ELSE sweepPartitions(rows, parts, dropped, partitions, i + 1,
                                  removeBelowEpoch, failAt)

\* clearOldHourAggregations(removeBelowEpoch), the store listing partitions
clearOldHourAggregations(rows, parts, partitions, removeBelowEpoch, failAt) ==
    sweepPartitions(rows, parts, <<>>, partitions, 1, removeBelowEpoch, failAt)

\* the orders in which the store may list the partitions of the hourly table
Listings(parts) ==
    LET names == GetPartitionNamesOfTable(parts)
    IN  {l \in [1..Cardinality(names) -> names] :
            \A i, j \in DOMAIN l : l[i] = l[j] => i = j}

\* the thresholds the scheduler sweeps with: the ends of the partitions there
\* are and the epochs after them (any other threshold drops what one of these
\* drops)
RemoveBelow(parts) == {partition[2] + d : partition \in parts, d \in {0, 1}}

InitRetention ==
    /\ Quiet
    /\ offset \in 0..MaxOffset
    /\ driven = "hour"
    /\ source = {}
    /\ hourly = {}
    /\ hourParts = {}
    /\ daily = {}
    /\ rolling = {}
    /\ dayParts = {}
    /\ call = NoCall

\* the epoch writer exports the next epoch
ExportRetained ==
    /\ SourceHead < RetMaxEpoch
    /\ source' = source \cup {SourceHead + 1}
    /\ call' = Exported(SourceHead + 1)
    /\ UNCHANGED <<offset, rolling, driven, hourly, hourParts, daily, dayParts, threads>>

ClearOldHourAggregations(removeBelowEpoch, partitions, failAt) ==
    /\ \E r \in {clearOldHourAggregations(hourly, hourParts, partitions,
                                          removeBelowEpoch, failAt)} :
           /\ hourly' = r.rows
           /\ hourParts' = r.parts
           /\ call' = [op |-> "clearOldHourAggregations", e |-> removeBelowEpoch,
                       err |-> r.err, skipped |-> FALSE, committed |-> 0,
                       after |-> "first", covered |-> call.covered,
                       dropped |-> r.dropped]
    /\ UNCHANGED <<offset, rolling, driven, source, daily, dayParts, threads>>

NextRetention ==
    \/ ExportRetained
    \/ \E e \in CallEpochs, fault \in Faults : Aggregate1h(e, fault)
    \/ \E removeBelowEpoch \in RemoveBelow(hourParts), partitions \in Listings(hourParts),
            failAt \in 0..MaxFaultAt :
                ClearOldHourAggregations(removeBelowEpoch, partitions, failAt)

SpecRetention == InitRetention /\ [][NextRetention]_vars

(***************************************************************************)
(* Hour passes, bootstraps and sweeps.                                     *)
(***************************************************************************)
\* the epoch writer exports the next epoch once the scheduler has had the hour
\* pass of the last one run
ExportRolling ==
    /\ SourceHead < RollMaxEpoch
    /\ GetLastExported(hourly).EpochEnd = SourceHead + 1
    /\ source' = source \cup {SourceHead + 1}
    /\ call' = Exported(SourceHead + 1)
    /\ UNCHANGED <<offset, rolling, driven, hourly, hourParts, daily, dayParts, threads>>

\* the partitions of the hourly table as the store lists them in ascending order
RECURSIVE AscendingListing(_)
AscendingListing(parts) ==
    IF parts = {} THEN <<>>
    ELSE LET lowest == CHOOSE x \in parts : \A y \in parts : x[1] <= y[1]
         IN  <<HourlyPartitionName(lowest[1], lowest[2])>>
                \o AscendingListing(parts \ {lowest})

\* hour passes that keep up with the epoch writer, bootstraps of the rolling
\* table, and sweeps of the first hourly partition
NextRolling ==
    \/ ExportRolling
    \/ \E e \in CallEpochs : Aggregate1h(e, NoFault)
    \/ \E fault \in BootstrapFaults : Bootstrap(fault)
    \/ \E removeBelowEpoch \in SweepBelow :
            ClearOldHourAggregations(removeBelowEpoch, AscendingListing(hourParts), 0)

InitRolling ==
    /\ Quiet
    /\ offset \in 0..MaxOffset
    /\ driven = "hour"
    /\ source = {}
    /\ hourly = {}
    /\ hourParts = {}
    /\ daily = {}
    /\ rolling = {}
    /\ dayParts = {}
    /\ call = NoCall

SpecRolling == InitRolling /\ [][NextRolling]_vars

\* the rows of the hourly table that the partitions parts hold
RowsIn(rows, parts) == {r \in rows : HasPartitionFor(parts, r.epoch_start)}

Range(seq) == {seq[i] : i \in DOMAIN seq}

\* C16: clearOldHourAggregations(T) removes no partition [from,to) with to > T,
\* the partitions it removes are exactly those whose range it decoded from a
\* listed identifier and handed to the drop, and the rows of every partition
\* left are as they were, also when the sweep returns an error part-way.
C16_RetentionSound ==
    [][call'.op = "clearOldHourAggregations" =>
            /\ \A partition \in hourParts \ hourParts' : ~(partition[2] > call'.e)
            /\ hourParts \ hourParts' = Range(call'.dropped)
            /\ \A range \in Range(call'.dropped) :
                    HourlyPartitionName(range[1], range[2])
                        \in GetPartitionNamesOfTable(hourParts)
            /\ hourParts' \subseteq hourParts
            /\ RowsIn(hourly', hourParts') = RowsIn(hourly, hourParts')]_vars

\* a sweep has dropped one stale partition with its rows, failed to drop a
\* second one, and left a partition that ends above the threshold with its rows
C16_Witness ==
    /\ call.op = "clearOldHourAggregations"
    /\ call.err # ErrNil
    /\ Len(call.dropped) = 1
    /\ \E partition \in hourParts : partition[2] < call.e /\ RowsIn(hourly, {partition}) # {}
    /\ \E partition \in hourParts : partition[2] > call.e /\ RowsIn(hourly, {partition}) # {}
    /\ \A r \in hourly : ~HasPartitionFor(Range(call.dropped), r.epoch_start)

\* PartitionEpochWidth * getHourAggregateWidth(): the epochs of one hourly partition
HourPartitionWidth == PartitionEpochWidth * getHourAggregateWidth

\* the partitions are pairwise disjoint, each starts at a multiple of the
\* partition width and is that wide
Tiles(parts) ==
    /\ \A p, q \in parts : p = q \/ p[2] <= q[1] \/ q[2] <= p[1]
    /\ \A p \in parts : p[1] % HourPartitionWidth = 0 /\ p[2] - p[1] = HourPartitionWidth

\* no partition is missing between the lowest and the highest of parts
NoneMissing(parts) ==
    \A p, q \in parts :
        \A from \in p[1]..q[1] :
            from % HourPartitionWidth = 0 => <<from, from + HourPartitionWidth>> \in parts

C19_DayReadsCommittedHours ==
    daily # {} => GetLastExported(daily).EpochEnd <= GetLastExported(hourly).EpochEnd

\* C17 as stated: after a successful bootstrap, every row of the rolling 24h
\* table satisfies epoch_end - epoch_start == EpochsPerDay.
C17_Original ==
    (call.op = "bootstrap" /\ call.err = ErrNil) =>
        \A r \in rolling : r.epoch_end - r.epoch_start = EpochsPerDay

\* C17: after a successful bootstrap, every row of the rolling 24h table ends
\* where the latest hour bucket ends and starts EpochsPerDay before the start of
\* that bucket; it starts at 0 while the latest hour bucket starts before
\* EpochsPerDay.
C17_RollingWidth ==
    (call.op = "bootstrap" /\ call.err = ErrNil) =>
        LET last == GetLastExported(hourly)
        IN  \A r \in rolling :
                /\ r.epoch_end = last.EpochEnd
                /\ IF last.EpochStart >= EpochsPerDay
                   THEN r.epoch_end - r.epoch_start
                            = EpochsPerDay + (last.EpochEnd - last.EpochStart)
                   ELSE r.epoch_start = 0

\* a bootstrap has built the row of the rolling table from a day and an hour of
\* hour buckets, the latest of them complete
C17_Witness ==
    /\ call.op = "bootstrap" /\ call.err = ErrNil
    /\ \E r \in rolling :
            /\ r.epoch_start > 0
            /\ r.epoch_end - r.epoch_start = EpochsPerDay + getHourAggregateWidth
            /\ r.reward = EpochsPerDay + getHourAggregateWidth

\* the hourly table has no bucket that starts at the tail of the window: the
\* start of the bucket EpochsPerDay before the latest one, or 0
TailMissing ==
    LET last == GetLastExported(hourly)
        tail == IF last.EpochStart >= EpochsPerDay
                THEN last.EpochStart - EpochsPerDay ELSE 0
    IN  \A r \in hourly : r.epoch_start # tail

\* C18: if the hourly table has no bucket whose epoch_start is the tail of the
\* window, also when it is empty, bootstrap returns an error and the rolling
\* table is as it was, in the transaction of the bootstrap and after it:
\* neither truncated nor written.
C18_BootstrapPrerequisite ==
    (call.op = "bootstrap" /\ TailMissing) =>
        /\ call.err # ErrNil
        /\ call.tx = rolling

\* a sweep has dropped the partition of the tail bucket after a bootstrap filled
\* the rolling table; the next bootstrap finds later buckets but not the tail,
\* and fails
C18_Witness ==
    /\ call.op = "bootstrap" /\ call.err = "failed to check if tail exists"
    /\ hourly # {} /\ TailMissing
    /\ rolling # {} /\ call.tx = rolling

(***************************************************************************)
(* The ranges a pass hands to its per-bucket step.                         *)
(***************************************************************************)
\* the pass of this step, as it runs when the store does not fail
PassOf ==
    IF call'.op = "aggregate1h"
    THEN aggregate1h(hourly, hourParts, call'.e, NoFault)
    ELSE dayAggregate(daily, dayParts, call'.e, NoFault)

IsPass == call'.op \in {"aggregate1h", "dayAggregate"}

\* C21 as stated: every range [boundsStart, boundsEnd) a pass with argument
\* currentExportedEpoch hands to the merge write has
\* boundsEnd <= currentExportedEpoch + 1.
C21_NoWritePastHead ==
    [][IsPass => \E r \in {PassOf} :
                    \A i \in 1..CommittedOf(r) : r.writes[i][2] <= call'.e + 1]_vars

\* the pass of this step ran its whole loop: the store did not fail it (a pass
\* that the store fails hands over the first of the same ranges and stops)
Unfailed == IsPass /\ call'.err # "store"

\* the bucket bounds of the aggregator that ran the pass of this step
BoundsOf(epoch) ==
    IF call'.op = "aggregate1h" THEN getHourAggregateBounds(epoch)
    ELSE getDayAggregateBounds(epoch)

\* the latest bucket the pass of this step read when it started
LastRead == GetLastExported(IF call'.op = "aggregate1h" THEN hourly ELSE daily)

\* C22: every range a pass hands to the merge write starts at or after the
\* epoch_end of the latest bucket read at the start of the pass, the ranges of
\* one pass go up strictly and are pairwise disjoint, and every non-empty range
\* lies inside one bucket.
C22_ResumePoint ==
    [][Unfailed => \E r \in {PassOf} :
            \A i \in 1..Len(r.writes) :
                /\ r.writes[i][1] >= LastRead.EpochEnd
                /\ \A j \in 1..(i - 1) : /\ r.writes[j][1] < r.writes[i][1]
                                         /\ r.writes[j][2] <= r.writes[i][1]
                /\ r.writes[i][1] < r.writes[i][2]
                    => BoundsOf(r.writes[i][1]) = BoundsOf(r.writes[i][2] - 1)]_vars

\* an hour pass re-run after a store failure has filled the bucket [0,2) and
\* gone on into the next bucket
C22_Witness ==
    /\ call.op = "aggregate1h" /\ call.err = ErrNil /\ call.committed >= 2
    /\ call.after = "resumed"
    /\ \E r \in hourly : r.epoch_start = 0 /\ r.epoch_end = 2 /\ r.reward = 2
    /\ \E r \in hourly : r.epoch_start = 2 /\ r.epoch_end = 3
    /\ SourceHead = 2

\* the table the pass of this step reads and writes, before and after it
TableRead == IF call'.op = "aggregate1h" THEN hourly ELSE daily

TableLeft == IF call'.op = "aggregate1h" THEN hourly' ELSE daily'

\* the latest bucket read is closed: it ends where its bucket ends
LastClosed ==
    /\ TableRead # {}
    /\ LastRead.EpochEnd = BoundsOf(LastRead.EpochStart)[2]

\* C23: when the latest bucket is closed, a pass hands no range of that bucket
\* to the per-bucket step (no partition creation, no merge write) and leaves its
\* row as it is; the first range it hands over is of the next bucket and begins
\* at the epoch_end of the closed one, and a pass that returns nil without
\* skipping leaves a row of that next bucket when the head has reached it.
C23_ClosedBucketSkip ==
    [][(Unfailed /\ LastClosed) => \E r \in {PassOf} :
            /\ \A i \in 1..Len(r.writes) : r.writes[i][1] >= LastRead.EpochEnd
            /\ \A row \in TableRead : row.epoch_start = LastRead.EpochStart
                                        => row \in TableLeft
            /\ r.writes # <<>> =>
                    /\ r.writes[1][1] = LastRead.EpochEnd
                    /\ BoundsOf(r.writes[1][1])[1] = LastRead.EpochEnd
            /\ (call'.err = ErrNil /\ ~call'.skipped /\ call'.e >= LastRead.EpochEnd)
                    => \E row \in TableLeft : row.epoch_start = LastRead.EpochEnd]_vars

\* an hour pass that found the bucket [0,2) closed has handed over one range,
\* of the next bucket, and left the row of [0,2) alone
C23_Witness ==
    /\ call.op = "aggregate1h" /\ call.err = ErrNil /\ call.committed = 1
    /\ SourceHead = 1
    /\ \A r \in hourly : r.epoch_start = 0 /\ r.epoch_end = 2 /\ r.reward = 2
    /\ hourly # {}

\* a pass that returns nil on a source holding the epochs 0..e and none after
CaughtUpCase == IsPass /\ call'.err = ErrNil /\ source = 0..call'.e

\* the hour pass finds the latest bucket more than the retention duration behind
BeyondRetention ==
    /\ call'.op = "aggregate1h"
    /\ U64Sub(call'.e + 1, LastRead.EpochEnd) > getHourRetentionDurationEpochs

StaleMaxEpoch == 7

\* the epoch writer exports the next epoch
ExportStale ==
    /\ SourceHead < StaleMaxEpoch
    /\ source' = source \cup {SourceHead + 1}
    /\ call' = Exported(SourceHead + 1)
    /\ UNCHANGED <<offset, rolling, driven, hourly, hourParts, daily, dayParts, threads>>

\* the epochs the scheduler may pass: any epoch exported so far
RetryEpochs == 0..SourceHead

NextStale ==
    \/ ExportStale
    \/ \E e \in RetryEpochs : Aggregate1h(e, NoFault)
    \/ \E e \in RetryEpochs : DayAggregate(e, NoFault)

SpecStale == Init /\ [][NextStale]_vars

\* a pass invoked with an epoch older than what the latest bucket already holds
StaleCall == IsPass /\ call'.e + 1 < LastRead.EpochEnd

\* C25: a pass invoked with currentExportedEpoch+1 < lastExported.epoch_end,
\* the source holding later epochs, changes no bucket row and hands over no
\* non-empty range, the hour pass and the day pass alike.
C25_StaleHarmless ==
    [][StaleCall => \E r \in {PassOf} :
            /\ TableLeft = TableRead
            /\ \A i \in 1..Len(r.writes) : r.writes[i][1] >= r.writes[i][2]]_vars

(***************************************************************************)
(* The partitions a pass ensures, over six days and for a genesis that is  *)
(* not on a UTC hour: the scheduler calls the pass once per exported epoch.*)
(***************************************************************************)
PartMaxEpoch == 289

PartMaxOffset == 2

InitPartition ==
    /\ Quiet
    /\ offset \in 0..PartMaxOffset
    /\ driven \in {"hour", "day"}
    /\ source = {}
    /\ hourly = {}
    /\ hourParts = {}
    /\ daily = {}
    /\ rolling = {}
    /\ dayParts = {}
    /\ call = NoCall

\* the epoch writer exports the next epoch once the pass of the last one ran
ExportPartition ==
    /\ SourceHead < PartMaxEpoch
    /\ call.op # "export"
    /\ source' = source \cup {SourceHead + 1}
    /\ call' = Exported(SourceHead + 1)
    /\ UNCHANGED <<offset, rolling, driven, hourly, hourParts, daily, dayParts, threads>>

NextPartition ==
    \/ ExportPartition
    \/ \E e \in CallEpochs : Aggregate1h(e, NoFault)
    \/ \E e \in CallEpochs : DayAggregate(e, NoFault)

SpecPartition == InitPartition /\ [][NextPartition]_vars

\* the range [from, to) holds source epochs, so that its merge writes a row
WritesRow(from, to) == SourceEpochs(from, to - 1) # {}

\* the partition the step of the range [from, to) creates holds the key of the
\* bucket row the step writes
OwnPartition(from, to) ==
    IF call'.op = "aggregate1h"
    THEN HasPartitionFor({GetHourPartitionRange(from)}, getHourAggregateBounds(from)[1])
    ELSE HasPartitionFor({GetDayPartitionRange(to)},
                         EpochToDay(getDayAggregateBounds(from)[1]))

\* C26: in every step of a pass that writes a row, the partition the step
\* creates is the one that holds the epoch_start (the day, for the daily table)
\* of the bucket row written.
C26_OwnPartition ==
    [][IsPass => \E r \in {PassOf} : \A i \in 1..Len(r.writes) :
            WritesRow(r.writes[i][1], r.writes[i][2])
                => OwnPartition(r.writes[i][1], r.writes[i][2])]_vars

\* C27: after any sequence of passes every partition of the hourly table holds
\* a row of some bucket, and every partition of the daily table a row of some
\* day: none was created without a row written into it.
C27_LazyPartitions ==
    /\ \A p \in hourParts : \E row \in hourly : p[1] <= row.epoch_start /\ row.epoch_start < p[2]
    /\ \A p \in dayParts : \E row \in daily : p[1] <= row.day /\ row.day < p[2]

\* C28: for every epoch and every genesis offset, the hour bucket that
\* getHourAggregateBounds returns lies inside the partition range that
\* GetHourPartitionRange returns for the bucket's start.
C28_BucketInPartition ==
    call.op = "bounds" =>
        /\ call.partition[1] <= call.hour[1]
        /\ call.hour[2] <= call.partition[2]

\* C30: getBootstrapBounds(h) returns (tail, head) with head the start of the
\* hour bucket of h, tail the start of an hour bucket and tail <= head, tail = 0
\* when head < EpochsPerDay, and head - tail = EpochsPerDay otherwise.
C30_BootstrapBounds ==
    call.op = "bounds" =>
        LET tail == call.bootstrap[1]
            head == call.bootstrap[2]
        IN  /\ head = call.hour[1]
            /\ getHourAggregateBounds(tail)[1] = tail
            /\ tail >= 0 /\ tail <= head
            /\ head < EpochsPerDay => tail = 0
            /\ head >= EpochsPerDay => head - tail = EpochsPerDay

\* the bounds of the latest hourly epoch 60 under the genesis offset 1: the head
\* bucket starts at 59, the tail bucket a day before, at 11
C30_Witness ==
    /\ call.op = "bounds" /\ call.e = 60 /\ offset = 1
    /\ call.bootstrap = <<11, 59>>

\* the sums of the hour buckets that start in from..to, bucket start by bucket start
RECURSIVE SumWindow(_, _, _)
SumWindow(rows, from, to) ==
    IF from > to THEN [reward |-> 0, deposits_amount |-> 0]
    ELSE LET rest == SumWindow(rows, from + 1, to)
             here == {r \in rows : r.epoch_start = from}
         IN  IF here = {} THEN rest
             ELSE LET r == CHOOSE x \in here : TRUE
                  IN  [reward |-> r.reward + rest.reward,
                       deposits_amount |-> r.deposits_amount + rest.deposits_amount]

\* C29: after a successful bootstrap with the bounds (tail, head), the rolling
\* table holds one row (one entity has hour buckets in the window) and nothing
\* else: it sums the hour buckets with epoch_start in [tail, head], starts at
\* tail, ends where the head bucket ends, and has the balance_start of the tail
\* bucket and the balance_end of the head bucket.
C29_BootstrapRebuilds ==
    (call.op = "bootstrap" /\ call.err = ErrNil) =>
        LET last == GetLastExported(hourly)
            head == last.EpochStart
            tail == IF head >= EpochsPerDay THEN head - EpochsPerDay ELSE 0
            sums == SumWindow(hourly, tail, head)
        IN  /\ Cardinality(rolling) = 1
            /\ \A r \in rolling :
                    /\ r.epoch_start = tail
                    /\ r.epoch_end = last.EpochEnd
                    /\ r.reward = sums.reward
                    /\ r.deposits_amount = sums.deposits_amount
                    /\ \E t \in hourly : t.epoch_start = tail
                                            /\ r.balance_start = t.balance_start
                    /\ \E h \in hourly : h.epoch_start = head
                                            /\ r.balance_end = h.balance_end

\* a bootstrap has rebuilt the rolling row from the hour buckets [2,4) .. [50,51):
\* 49 epochs, the balance before epoch 2 and the balance after epoch 50
C29_Witness ==
    /\ call.op = "bootstrap" /\ call.err = ErrNil
    /\ SourceHead = 50
    /\ \E r \in rolling :
            /\ r.epoch_start = 2 /\ r.epoch_end = 51
            /\ r.reward = 49
            /\ r.balance_start = SourceBalance(2).balance_start
            /\ r.balance_end = SourceBalance(50).balance_end

\* C31: a bootstrap that returns an error, also after its truncate ran and its
\* insert failed, leaves the rolling table with the rows it had before; and a
\* rolling table that holds rows never becomes empty: no step commits the
\* truncate without the rebuild.
C31_BootstrapAllOrNothing ==
    [][/\ (call'.op = "bootstrap" /\ call'.err # ErrNil) => rolling' = rolling
       /\ rolling # {} => rolling' # {}]_vars

\* a bootstrap over a rolling table that holds a row has truncated it in its
\* transaction, failed at the insert, and the row is still there
C31_Witness ==
    /\ call.op = "bootstrap" /\ call.err = "store"
    /\ call.tail # NoEpoch /\ (\E r \in hourly : r.epoch_start = call.tail)
    /\ call.tx = {}
    /\ rolling # {}

\* the mutex invocation p locks
MutexOf(p) == IF p \in DayProcs THEN mutex.day ELSE mutex.hour

\* the exclusive end of the bucket of the epoch invocation p was called with
EndBoundOf(p) ==
    IF p \in DayProcs THEN getDayAggregateBounds(frame[p].arg)[2]
    ELSE getHourAggregateBounds(frame[p].arg)[2]

\* C32: every invocation of aggregate1h, dayAggregate and
\* clearOldHourAggregations that was called returns, its loop takes one step per
\* bucket from lastExported.epoch_start to currentEndBound and no more, an
\* invocation that has returned does not hold the mutex, and an invocation that
\* waits for the mutex gets it.
C32_TerminatesAndReleases ==
    /\ [](\A p \in Procs : pc[p] = "idle" => MutexOf(p) # p)
    /\ [](\A p \in HourProcs \cup DayProcs :
            pc[p] = "step" => /\ frame[p].last.EpochStart <= frame[p].epoch
                              /\ frame[p].epoch <= EndBoundOf(p))
    /\ \A p \in Procs : (pc[p] # "idle") ~> (pc[p] = "idle")
    /\ \A p \in Procs : (pc[p] = "lock") ~> (MutexOf(p) = p)

\* the sweep holds the hour mutex after a drop that the store failed, and an
\* hour pass waits for the mutex
C32_Witness ==
    /\ pc[Sweeper] = "failed" /\ mutex.hour = Sweeper
    /\ pc["h1"] = "lock"

====
